---- MODULE Spec2Model ----
(***************************************************************************)
(* Model of mcp_server_neurolorap.storage.StorageManager: the storage      *)
(* layout (documents directory, .neurolora link, seeded files) and the     *)
(* setup() pipeline that establishes it, one action per filesystem call.   *)
(***************************************************************************)
EXTENDS Integers, Sequences, FiniteSets, TLC

(***************************************************************************)
(* Paths are sequences of components.                                      *)
(***************************************************************************)
ProjectRoot == <<"tmp", "app">>
AliasedRealRoot == <<"private", "tmp", "app">>
Home == <<"home", "u">>
OtherDir == <<"srv", "other">>
GoneDir == <<"srv", "gone">>

Last(s) == s[Len(s)]

\* storage.py 36-41, no subproject_id given
ProjectName == Last(ProjectRoot)

\* storage.py 44-46
McpDocsDir == Home \o <<".mcp-docs">>
ProjectDocsDir == McpDocsDir \o <<ProjectName>>
LinkParent == ProjectRoot

RECURSIVE CommonLen(_, _)
CommonLen(a, b) ==
    IF a = <<>> \/ b = <<>> \/ Head(a) # Head(b)
    THEN 0
    ELSE 1 + CommonLen(Tail(a), Tail(b))

\* os.path.relpath(target, start): lexical, one ".." for each component of
\* start below the common prefix, then the rest of target
RelPath(target, start) ==
    LET c == CommonLen(target, start)
    IN  [i \in 1..(Len(start) - c) |-> ".."] \o SubSeq(target, c + 1, Len(target))

\* what the kernel does with the components of a path, ".." dropping the
\* directory reached so far
RECURSIVE Walk(_, _)
Walk(acc, rest) ==
    IF rest = <<>> THEN acc
    ELSE IF Head(rest) = ".."
         THEN Walk(IF acc = <<>> THEN acc ELSE SubSeq(acc, 1, Len(acc) - 1), Tail(rest))
         ELSE Walk(Append(acc, Head(rest)), Tail(rest))

MaxRetries == 10
LinkMaxRetries == 10
MaxWrites == 3

AllProcs == {1, 2}
SeqProcs == {1}

Absent == "absent"
Marker == ".initialized"
Dests == {".neuroloraignore", "TODO.md", "DONE.md"}
FileNames == Dests \cup {Marker}
InDocs == {Marker, "TODO.md", "DONE.md"}
Templates == {"ignore.template", "todo.template.md", "done.template.md"}

\* the bug of a wrong template name in _create_ignore_file
TemplateOfMixedUp(d) ==
    CASE d = ".neuroloraignore" -> "todo.template.md"
      [] d = "TODO.md" -> "todo.template.md"
      [] d = "DONE.md" -> "done.template.md"

\* storage.py 276-283: the template each destination is seeded from
TemplateOf(d) ==
    CASE d = ".neuroloraignore" -> "ignore.template"
      [] d = "TODO.md" -> "todo.template.md"
      [] d = "DONE.md" -> "done.template.md"

\* the text of a bundled template
TemplateContent(t) ==
    CASE t = "ignore.template" -> "ignore-text"
      [] t = "todo.template.md" -> "todo-text"
      [] t = "done.template.md" -> "done-text"

VARIABLES
    docsKind,     \* what is at project_docs_dir: "missing", "dir", "file"
    link,         \* what is at neurolora_link
    files,        \* content of each file, Absent when not there
    templates,    \* the templates bundled with the package
    rootAliased,  \* the project root is reached through a symlinked directory
    proc,         \* per process: position in setup() and its locals
    writes,       \* per destination, the number of writes by the seeder
    settled,      \* the last call was a setup() that returned without error,
                  \* and nothing outside setup() wrote since
    cacheRoot,    \* ~/.mcp-docs exists
    manager,      \* per process: the StorageManager it constructed
    lagging,      \* the filesystem may not show yet what was just created
    cfgFile,      \* the Cline settings file
    cfgParent,    \* the directory the settings file lives in
    clineLog      \* history: the calls of configure_cline since the file was
                  \* last edited by anyone else, the last two of them

storageVars == <<docsKind, link, files, templates, rootAliased, proc, writes, settled>>
ctorVars == <<cacheRoot, manager>>
clineVars == <<cfgFile, cfgParent, clineLog>>
otherVars == <<ctorVars, lagging, clineVars>>
vars == <<storageVars, ctorVars, lagging, clineVars>>

\* no settings file, and configure_cline not called
AbsentFile == [kind |-> "absent"]
ClineUntouched ==
    /\ cfgFile = AbsentFile
    /\ cfgParent = "missing"
    /\ clineLog = <<>>

NoLink == [kind |-> "missing", rel |-> FALSE, target |-> <<>>]
FileAtLink == [kind |-> "file", rel |-> FALSE, target |-> <<>>]
DirAtLink == [kind |-> "dir", rel |-> FALSE, target |-> <<>>]
SymlinkTo(path, isRel) == [kind |-> "symlink", rel |-> isRel, target |-> path]

\* the directory the kernel starts from when it follows a relative link
RealParent == IF rootAliased THEN AliasedRealRoot ELSE LinkParent

\* Path.resolve(): the path with every symlink followed
Resolve(l) ==
    IF l.kind # "symlink" THEN RealParent \o <<".neurolora">>
    ELSE IF l.rel THEN Walk(RealParent, l.target) ELSE l.target

PathExists(path) ==
    \/ path = ProjectDocsDir /\ docsKind # "missing"
    \/ path = OtherDir

\* Path.exists(): follows symlinks, so a dangling link does not exist
Exists(l) ==
    \/ l.kind \in {"file", "dir"}
    \/ l.kind = "symlink" /\ PathExists(Resolve(l))

IsSymlink(l) == l.kind = "symlink"

Fs == [docsKind |-> docsKind, link |-> link, files |-> files]

FreshFs ==
    [docsKind |-> "missing", link |-> NoLink, files |-> [f \in FileNames |-> Absent]]

\* subproject_id: not given, or given with its text, a sequence of characters
NoSub == [given |-> FALSE, text |-> <<>>]
Sub(text) == [given |-> TRUE, text |-> text]

\* the bug of appending the identifier without the separator
NamespaceNameUnseparated(base, sub) ==
    IF sub.given /\ sub.text # <<>> THEN base \o sub.text ELSE base

\* storage.py 36-41: "if subproject_id" is false for None and for ""
NamespaceName(base, sub) ==
    IF sub.given /\ sub.text # <<>> THEN base \o <<"-">> \o sub.text ELSE base

NoManager ==
    [live |-> FALSE, root |-> <<>>, sub |-> NoSub, name |-> <<>>, docsDir |-> <<>>,
     link |-> <<>>, cacheRootBefore |-> FALSE]

\* storage.py 32-46: the paths a StorageManager holds
Layout(root, sub, before) ==
    LET name == NamespaceName(Last(root), sub)
    IN  [live |-> TRUE, root |-> root, sub |-> sub, name |-> name,
         docsDir |-> Home \o <<".mcp-docs">> \o <<name>>,
         link |-> root \o <<".neurolora">>,
         cacheRootBefore |-> before]

IdleProc ==
    [pc |-> "idle", mode |-> "none", err |-> "none", i |-> 0,
     dirAns |-> <<>>, linkAns |-> <<>>, phases |-> <<>>, recOk |-> FALSE,
     start |-> FreshFs, rerun |-> FALSE, seedFault |-> FALSE]

InitLinks ==
    {NoLink, FileAtLink, DirAtLink,
     SymlinkTo(ProjectDocsDir, FALSE), SymlinkTo(OtherDir, FALSE), SymlinkTo(GoneDir, FALSE)}

Init ==
    /\ docsKind \in {"missing", "dir", "file"}
    /\ link \in InitLinks
    /\ templates \in SUBSET Templates
    /\ rootAliased \in BOOLEAN
    /\ files \in [FileNames -> {Absent, "custom"}]
    /\ \A f \in InDocs : docsKind # "dir" => files[f] = Absent
    /\ files[Marker] = Absent
    /\ proc = [p \in AllProcs |-> IdleProc]
    /\ writes = [d \in Dests |-> 0]
    /\ settled = FALSE
    /\ cacheRoot = TRUE
    /\ manager = [p \in AllProcs |-> Layout(ProjectRoot, NoSub, TRUE)]
    /\ lagging = TRUE
    /\ ClineUntouched

Set(p, r) == proc' = [proc EXCEPT ![p] = r]

\* what an existence check may answer: a filesystem that lags may not show
\* yet what is there, and never shows what is not there
Answers(truth) == IF truth /\ lagging THEN {TRUE, FALSE} ELSE {truth}

\* setup(), storage.py 59-64: the four steps in the order they are called
SetupOrder == <<"directories", "symlinks", "ignore_file", "task_files">>

EntryPc(phase) ==
    CASE phase = "directories" -> "d_mkdir"
      [] phase = "symlinks" -> "rec_mkdir"
      [] phase = "ignore_file" -> "s_ignore"
      [] phase = "task_files" -> "s_todo"

\* a step of setup() returned: the next one is entered, or setup() returns
Advance(r) ==
    LET k == Len(r.phases)
    IN  IF r.mode = "setup" /\ k < Len(SetupOrder)
        THEN [r EXCEPT !.pc = EntryPc(SetupOrder[k + 1]),
                       !.phases = Append(@, SetupOrder[k + 1]), !.i = 0]
        ELSE [r EXCEPT !.pc = "done"]

\* storage.py 215: _create_or_update_symlink returns to its caller
RecReturn(r) ==
    [r EXCEPT !.recOk = TRUE, !.pc = IF r.mode = "setup" THEN "l_poll" ELSE "done", !.i = 0]

\* the bug of a handler in _create_or_update_symlink that logs the exception
\* and does not re-raise it
RaiseLoggedOnly(r, e) ==
    IF r.pc \in {"rec_mkdir", "rec_unlink", "rec_symlink", "v_exists", "v_issym", "v_resolve"}
    THEN RecReturn(r)
    ELSE [r EXCEPT !.pc = "done", !.err = e]

\* the bug of a setup() that notes the error of a step and goes on
RaiseAndContinue(r, e) == Advance([r EXCEPT !.err = e])

\* the bug of a handler in _create_template_file that logs the exception and
\* does not re-raise it
RaiseSeedLoggedOnly(r, e) ==
    IF e = "template_io"
    THEN IF r.pc = "s_todo" THEN [r EXCEPT !.pc = "s_done"] ELSE Advance(r)
    ELSE [r EXCEPT !.pc = "done", !.err = e]

\* an exception: every handler on the way logs and re-raises, and setup()
\* catches nothing, so the call ends with the error
Raise(r, e) == [r EXCEPT !.pc = "done", !.err = e]

\* the bug of treating a missing template like the other failures
OnTemplateMissingRaise(r) == [r EXCEPT !.pc = "done", !.err = "template_missing"]

\* storage.py 264-265: a missing template is logged and the call goes on
OnTemplateMissing(r) == r

\* the bug of seeding without the check
DestinationPresentIgnored(d) == FALSE

\* storage.py 237: an existing destination is left alone
DestinationPresent(d) == files[d] # Absent

\* setup(), storage.py 56-59: the call begins with _create_directories
StartSetup(p) ==
    /\ proc[p].pc = "idle"
    /\ Set(p, Advance([IdleProc EXCEPT !.mode = "setup", !.start = Fs, !.rerun = settled]))
    /\ UNCHANGED <<docsKind, link, files, templates, rootAliased, writes, settled>>
    /\ UNCHANGED otherVars

\* _create_or_update_symlink called on its own
StartReconcile(p) ==
    /\ proc[p].pc = "idle"
    /\ Set(p, [IdleProc EXCEPT !.mode = "reconcile", !.pc = "rec_mkdir", !.start = Fs])
    /\ UNCHANGED <<docsKind, link, files, templates, rootAliased, writes, settled>>
    /\ UNCHANGED otherVars

\* Path.mkdir(parents=True, exist_ok=True), storage.py 76 and 177
Mkdir(p, pcHere, pcNext) ==
    /\ proc[p].pc = pcHere
    /\ IF docsKind = "file"
       THEN /\ Set(p, Raise(proc[p], "mkdir_failed"))
            /\ UNCHANGED docsKind
       ELSE /\ docsKind' = "dir"
            /\ Set(p, [proc[p] EXCEPT !.pc = pcNext])
    /\ UNCHANGED <<link, files, templates, rootAliased, writes, settled>>
    /\ UNCHANGED otherVars

DirMkdir(p) == Mkdir(p, "d_mkdir", "d_marker")

\* the bug of opening the marker file to append
DirMarkerAppended(p) ==
    /\ proc[p].pc = "d_marker"
    /\ files' = [files EXCEPT ![Marker] =
                   IF @ = Absent THEN "initialized" ELSE "initializedinitialized"]
    /\ Set(p, [proc[p] EXCEPT !.pc = "d_check"])
    /\ UNCHANGED <<docsKind, link, templates, rootAliased, writes, settled>>
    /\ UNCHANGED otherVars

\* storage.py 83-90: the marker file is written and synced
DirMarker(p) ==
    /\ proc[p].pc = "d_marker"
    /\ files' = [files EXCEPT ![Marker] = "initialized"]
    /\ Set(p, [proc[p] EXCEPT !.pc = "d_check"])
    /\ UNCHANGED <<docsKind, link, templates, rootAliased, writes, settled>>
    /\ UNCHANGED otherVars

\* storage.py 93-96: the immediate check
DirCheck(p) ==
    /\ proc[p].pc = "d_check"
    /\ \E a \in Answers(docsKind # "missing") :
         LET r == [proc[p] EXCEPT !.dirAns = Append(@, a)]
         IN  Set(p, IF a THEN [r EXCEPT !.pc = "d_poll", !.i = 0]
                         ELSE Raise(r, "dir_not_created"))
    /\ UNCHANGED <<docsKind, link, files, templates, rootAliased, writes, settled>>
    /\ UNCHANGED otherVars

\* the bug of a loop that retries without counting
DirPollUncounted(p) ==
    /\ proc[p].pc = "d_poll"
    /\ proc[p].i < MaxRetries
    /\ \E a \in Answers(docsKind # "missing") :
         Set(p, IF a THEN Advance(proc[p]) ELSE [proc[p] EXCEPT !.dirAns = <<a>>])
    /\ UNCHANGED <<docsKind, link, files, templates, rootAliased, writes, settled>>
    /\ UNCHANGED otherVars

\* storage.py 103-106: one turn of the loop, a check and then break or sleep
DirPoll(p) ==
    /\ proc[p].pc = "d_poll"
    /\ proc[p].i < MaxRetries
    /\ \E a \in Answers(docsKind # "missing") :
         LET r == [proc[p] EXCEPT !.dirAns = Append(@, a)]
         IN  Set(p, IF a THEN Advance(r) ELSE [r EXCEPT !.i = @ + 1])
    /\ UNCHANGED <<docsKind, link, files, templates, rootAliased, writes, settled>>
    /\ UNCHANGED otherVars

\* storage.py 107-111: the loop ran out
DirExhausted(p) ==
    /\ proc[p].pc = "d_poll"
    /\ proc[p].i >= MaxRetries
    /\ Set(p, Raise(proc[p], "dir_not_visible"))
    /\ UNCHANGED <<docsKind, link, files, templates, rootAliased, writes, settled>>
    /\ UNCHANGED otherVars

RecMkdir(p) == Mkdir(p, "rec_mkdir", "rec_exists")

\* storage.py 182
RecExists(p) ==
    /\ proc[p].pc = "rec_exists"
    /\ Set(p, [proc[p] EXCEPT !.pc = IF Exists(link) THEN "rec_issym" ELSE "rec_symlink"])
    /\ UNCHANGED <<docsKind, link, files, templates, rootAliased, writes, settled>>
    /\ UNCHANGED otherVars

\* storage.py 184
RecIsSymlink(p) ==
    /\ proc[p].pc = "rec_issym"
    /\ Set(p, [proc[p] EXCEPT !.pc = IF ~IsSymlink(link) THEN "rec_unlink" ELSE "rec_resolve"])
    /\ UNCHANGED <<docsKind, link, files, templates, rootAliased, writes, settled>>
    /\ UNCHANGED otherVars

\* the bug of a comparison at storage.py 190 that never finds the link right
RecResolveAlwaysReplace(p) ==
    /\ proc[p].pc = "rec_resolve"
    /\ Set(p, [proc[p] EXCEPT !.pc = "rec_unlink"])
    /\ UNCHANGED <<docsKind, link, files, templates, rootAliased, writes, settled>>
    /\ UNCHANGED otherVars

\* storage.py 190: a link that already resolves to the target is left alone
RecResolve(p) ==
    /\ proc[p].pc = "rec_resolve"
    /\ Set(p, [proc[p] EXCEPT
                 !.pc = IF Resolve(link) # ProjectDocsDir THEN "rec_unlink" ELSE "v_exists"])
    /\ UNCHANGED <<docsKind, link, files, templates, rootAliased, writes, settled>>
    /\ UNCHANGED otherVars

\* Path.unlink(), storage.py 186 and 192: removes a file or a symlink, and
\* fails on a directory and on a path that is not there
RecUnlink(p) ==
    /\ proc[p].pc = "rec_unlink"
    /\ IF link.kind \in {"dir", "missing"}
       THEN /\ Set(p, Raise(proc[p], "unlink_failed"))
            /\ UNCHANGED link
       ELSE /\ link' = NoLink
            /\ Set(p, [proc[p] EXCEPT !.pc = "rec_symlink"])
    /\ UNCHANGED <<docsKind, files, templates, rootAliased, writes, settled>>
    /\ UNCHANGED otherVars

\* Path.symlink_to(relative_target), storage.py 180, 187, 193, 198: fails when
\* anything, a dangling symlink included, is at the path
RecSymlink(p) ==
    /\ proc[p].pc = "rec_symlink"
    /\ IF link.kind # "missing"
       THEN /\ Set(p, Raise(proc[p], "symlink_failed"))
            /\ UNCHANGED link
       ELSE /\ link' = SymlinkTo(RelPath(ProjectDocsDir, LinkParent), TRUE)
            /\ Set(p, [proc[p] EXCEPT !.pc = "v_exists"])
    /\ UNCHANGED <<docsKind, files, templates, rootAliased, writes, settled>>
    /\ UNCHANGED otherVars

\* storage.py 202-203
VerifyExists(p) ==
    /\ proc[p].pc = "v_exists"
    /\ \E a \in Answers(Exists(link)) :
         LET r == [proc[p] EXCEPT !.linkAns = Append(@, a)]
         IN  Set(p, IF a THEN [r EXCEPT !.pc = "v_issym"] ELSE Raise(r, "link_not_created"))
    /\ UNCHANGED <<docsKind, link, files, templates, rootAliased, writes, settled>>
    /\ UNCHANGED otherVars

\* storage.py 204-207
VerifyIsSymlink(p) ==
    /\ proc[p].pc = "v_issym"
    /\ Set(p, IF IsSymlink(link) THEN [proc[p] EXCEPT !.pc = "v_resolve"]
                                 ELSE Raise(proc[p], "not_symlink"))
    /\ UNCHANGED <<docsKind, link, files, templates, rootAliased, writes, settled>>
    /\ UNCHANGED otherVars

\* storage.py 208-215: the last check, and _create_or_update_symlink returns
VerifyResolve(p) ==
    /\ proc[p].pc = "v_resolve"
    /\ Set(p, IF Resolve(link) = ProjectDocsDir
              THEN RecReturn(proc[p])
              ELSE Raise(proc[p], "wrong_target"))
    /\ UNCHANGED <<docsKind, link, files, templates, rootAliased, writes, settled>>
    /\ UNCHANGED otherVars

\* storage.py 136-142: one turn of the loop of _create_symlinks
LinkPoll(p) ==
    /\ proc[p].pc = "l_poll"
    /\ proc[p].i < LinkMaxRetries
    /\ \E a \in Answers(Exists(link)) :
         LET r == [proc[p] EXCEPT !.linkAns = Append(@, a)]
         IN  Set(p, IF a /\ IsSymlink(link) THEN Advance(r) ELSE [r EXCEPT !.i = @ + 1])
    /\ UNCHANGED <<docsKind, link, files, templates, rootAliased, writes, settled>>
    /\ UNCHANGED otherVars

\* storage.py 143-147
LinkExhausted(p) ==
    /\ proc[p].pc = "l_poll"
    /\ proc[p].i >= LinkMaxRetries
    /\ Set(p, Raise(proc[p], "link_not_visible"))
    /\ UNCHANGED <<docsKind, link, files, templates, rootAliased, writes, settled>>
    /\ UNCHANGED otherVars

Bump(d) == [writes EXCEPT ![d] = IF @ < MaxWrites THEN @ + 1 ELSE @]

\* _create_template_file, storage.py 235-272, for destination d; after is the
\* process once the call has returned
CreateTemplateFile(p, d, after) ==
    IF DestinationPresent(d)
    THEN /\ Set(p, after)
         /\ UNCHANGED <<files, writes>>
    ELSE IF TemplateOf(d) \notin templates
    THEN /\ Set(p, OnTemplateMissing(after))
         /\ UNCHANGED <<files, writes>>
    ELSE \E outcome \in {"copied", "open_failed", "write_failed"} :
           CASE outcome = "copied" ->
                  /\ files' = [files EXCEPT ![d] = TemplateContent(TemplateOf(d))]
                  /\ writes' = Bump(d)
                  /\ Set(p, after)
             [] outcome = "open_failed" ->
                  /\ Set(p, Raise([proc[p] EXCEPT !.seedFault = TRUE], "template_io"))
                  /\ UNCHANGED <<files, writes>>
             [] outcome = "write_failed" ->
                  /\ files' = [files EXCEPT ![d] = "partial"]
                  /\ writes' = Bump(d)
                  /\ Set(p, Raise([proc[p] EXCEPT !.seedFault = TRUE], "template_io"))

\* _create_ignore_file, storage.py 274-278
SeedIgnore(p) ==
    /\ proc[p].pc = "s_ignore"
    /\ CreateTemplateFile(p, ".neuroloraignore", Advance(proc[p]))
    /\ UNCHANGED <<docsKind, link, templates, rootAliased, settled>>
    /\ UNCHANGED otherVars

\* _create_task_files, storage.py 280-283
SeedTodo(p) ==
    /\ proc[p].pc = "s_todo"
    /\ CreateTemplateFile(p, "TODO.md", [proc[p] EXCEPT !.pc = "s_done"])
    /\ UNCHANGED <<docsKind, link, templates, rootAliased, settled>>
    /\ UNCHANGED otherVars

SeedDone(p) ==
    /\ proc[p].pc = "s_done"
    /\ CreateTemplateFile(p, "DONE.md", Advance(proc[p]))
    /\ UNCHANGED <<docsKind, link, templates, rootAliased, settled>>
    /\ UNCHANGED otherVars

\* the call is over: the caller has its result
Return(p) ==
    /\ proc[p].pc = "done"
    /\ settled' = (proc[p].mode = "setup" /\ proc[p].err = "none")
    /\ Set(p, IdleProc)
    /\ UNCHANGED <<docsKind, link, files, templates, rootAliased, writes>>
    /\ UNCHANGED otherVars

\* the user writes a file between two calls
UserEdit(d) ==
    /\ \A q \in AllProcs : proc[q].pc = "idle"
    /\ d \in InDocs => docsKind = "dir"
    /\ files[d] # "custom"
    /\ files' = [files EXCEPT ![d] = "custom"]
    /\ settled' = FALSE
    /\ UNCHANGED <<docsKind, link, templates, rootAliased, proc, writes>>
    /\ UNCHANGED otherVars

Step(p) ==
    \/ DirMkdir(p) \/ DirMarker(p) \/ DirCheck(p) \/ DirPoll(p) \/ DirExhausted(p)
    \/ RecMkdir(p) \/ RecExists(p) \/ RecIsSymlink(p) \/ RecResolve(p)
    \/ RecUnlink(p) \/ RecSymlink(p)
    \/ VerifyExists(p) \/ VerifyIsSymlink(p) \/ VerifyResolve(p)
    \/ LinkPoll(p) \/ LinkExhausted(p)
    \/ SeedIgnore(p) \/ SeedTodo(p) \/ SeedDone(p)
    \/ Return(p)

\* one process: calls follow one another
Next ==
    \/ \E p \in SeqProcs : StartSetup(p) \/ StartReconcile(p) \/ Step(p)
    \/ \E d \in Dests : UserEdit(d)

Spec == Init /\ [][Next]_vars

(***************************************************************************)
(* Construction of a StorageManager, on its own.                           *)
(***************************************************************************)
MaxNameLen == 2
NameChars == {"a", "-"}
Texts(n) == UNION {[1..k -> NameChars] : k \in 0..n}
BaseNames == Texts(MaxNameLen) \ {<<>>}
SubIds == {NoSub} \cup {Sub(t) : t \in Texts(MaxNameLen)}

InitCtor ==
    /\ docsKind \in {"missing", "dir"}
    /\ link \in {NoLink, DirAtLink}
    /\ templates = Templates
    /\ rootAliased = FALSE
    /\ files = [f \in FileNames |-> Absent]
    /\ proc = [p \in AllProcs |-> IdleProc]
    /\ writes = [d \in Dests |-> 0]
    /\ settled = FALSE
    /\ cacheRoot \in BOOLEAN
    /\ manager = [p \in AllProcs |-> NoManager]
    /\ lagging = FALSE
    /\ ClineUntouched

\* the bug of creating the project's directory in the constructor too
ConstructEager(p, base, sub) ==
    /\ ~manager[p].live
    /\ manager' = [manager EXCEPT ![p] = Layout(<<"tmp", base>>, sub, cacheRoot)]
    /\ cacheRoot' = TRUE
    /\ docsKind' = "dir"
    /\ UNCHANGED <<link, files, templates, rootAliased, proc, writes, settled, lagging, clineVars>>

\* StorageManager.__init__, storage.py 19-54: the paths are computed and
\* mcp_docs_dir.mkdir(parents=True, exist_ok=True) is called
Construct(p, base, sub) ==
    /\ ~manager[p].live
    /\ manager' = [manager EXCEPT ![p] = Layout(<<"tmp", base>>, sub, cacheRoot)]
    /\ cacheRoot' = TRUE
    /\ UNCHANGED <<storageVars, lagging, clineVars>>

\* the object is dropped
Drop(p) ==
    /\ manager[p].live
    /\ manager' = [manager EXCEPT ![p] = NoManager]
    /\ UNCHANGED <<cacheRoot, storageVars, lagging, clineVars>>

NextCtor ==
    \/ \E p \in AllProcs, base \in BaseNames, sub \in SubIds : Construct(p, base, sub)
    \/ \E p \in AllProcs : Drop(p)

SpecCtor == InitCtor /\ [][NextCtor]_vars

(***************************************************************************)
(* Two processes on the same project, each making one call, their          *)
(* filesystem calls interleaved.                                           *)
(***************************************************************************)
InitConc ==
    /\ docsKind \in {"missing", "dir"}
    /\ link \in InitLinks
    /\ templates \in {{}, Templates}
    /\ rootAliased = FALSE
    /\ files = [f \in FileNames |-> Absent]
    /\ proc = [p \in AllProcs |-> IdleProc]
    /\ writes = [d \in Dests |-> 0]
    /\ settled = FALSE
    /\ cacheRoot = TRUE
    /\ manager = [p \in AllProcs |-> Layout(ProjectRoot, NoSub, TRUE)]
    /\ lagging = FALSE
    /\ ClineUntouched

\* the directory, once made, is never removed, so on a filesystem that does
\* not lag the loop of storage.py 103-111 cannot run out
NextConc ==
    \E p \in AllProcs :
        \/ StartSetup(p) \/ StartReconcile(p)
        \/ DirMkdir(p) \/ DirMarker(p) \/ DirCheck(p) \/ DirPoll(p)
        \/ RecMkdir(p) \/ RecExists(p) \/ RecIsSymlink(p) \/ RecResolve(p)
        \/ RecUnlink(p) \/ RecSymlink(p)
        \/ VerifyExists(p) \/ VerifyIsSymlink(p) \/ VerifyResolve(p)
        \/ LinkPoll(p) \/ LinkExhausted(p)
        \/ SeedIgnore(p) \/ SeedTodo(p) \/ SeedDone(p)

SpecConc == InitConc /\ [][NextConc]_vars

(***************************************************************************)
(* configure_cline: registering the server in the Cline settings file.     *)
(***************************************************************************)

ServerName == "aindreyway-mcp-neurolorap"
ForeignName == "other-server"

\* __main__.py 120-130: the entry this installation expects
ServerConfig ==
    [command |-> "python", args |-> <<"-m", "mcp_server_neurolorap">>,
     disabled |-> FALSE, alwaysAllow |-> <<>>,
     env |-> [PYTHONPATH |-> "root", PYTHONUNBUFFERED |-> "1",
              MCP_PROJECT_ROOT |-> "root"]]

\* entries found under the server's name: the expected one, one the user
\* disabled, one written by another installation
OwnConfigs ==
    {ServerConfig,
     [ServerConfig EXCEPT !.disabled = TRUE],
     [ServerConfig EXCEPT !.command = "python-old"]}

ForeignConfigs ==
    {[command |-> "node", disabled |-> FALSE], [command |-> "node", disabled |-> TRUE]}

NoEntries == [n \in {} |-> ServerConfig]

DictsOver(names) ==
    {d \in [names -> OwnConfigs \cup ForeignConfigs] :
        \A n \in names : d[n] \in (IF n = ServerName THEN OwnConfigs ELSE ForeignConfigs)}

\* the value under "mcpServers": the key missing, a value that is no object,
\* or an object of entries
ServersValues ==
    {[type |-> "nokey"], [type |-> "null"]}
    \cup {[type |-> "dict", entries |-> d] :
            d \in UNION {DictsOver(names) : names \in SUBSET {ServerName, ForeignName}}}

\* what the text of a file means to json.load: no JSON, a JSON value that is
\* no object, or an object, with its other top-level keys
JsonValues ==
    {[type |-> "invalid"], [type |-> "array"]}
    \cup {[type |-> "object", servers |-> sv, extra |-> x] :
            sv \in ServersValues, x \in BOOLEAN}

TextFile(fmt, data) == [kind |-> "text", fmt |-> fmt, data |-> data]

\* a file as another program left it: any layout of the text
ConfigFiles ==
    {TextFile(fmt, data) : fmt \in {"indent2", "compact"}, data \in JsonValues}

\* json.load, __main__.py 106-107
Load(file) == file.data

\* json.dump(config, f, indent=2), __main__.py 135 and 142
Dump(data) == TextFile("indent2", data)

\* the text left by a write that broke off
Truncated == TextFile("compact", [type |-> "invalid"])

\* __main__.py 108-110 and 114
EmptyConfig ==
    [type |-> "object", servers |-> [type |-> "dict", entries |-> NoEntries],
     extra |-> FALSE]

WithServersKey(raw) ==
    IF raw.servers.type = "nokey"
    THEN [raw EXCEPT !.servers = [type |-> "dict", entries |-> NoEntries]]
    ELSE raw

\* the bug of rewriting the file on every call
NeedsWriteAlways(entries) == TRUE

\* __main__.py 132 and 138-139
NeedsWrite(entries) ==
    \/ ServerName \notin DOMAIN entries
    \/ entries[ServerName] # ServerConfig

\* __main__.py 133 and 140
WithServer(config) ==
    [config EXCEPT !.servers.entries =
        [n \in DOMAIN config.servers.entries \cup {ServerName} |->
            IF n = ServerName THEN ServerConfig ELSE config.servers.entries[n]]]

Logged(call) ==
    IF Len(clineLog) = 2 THEN <<clineLog[2], call>> ELSE Append(clineLog, call)

\* an exception inside the try block, __main__.py 147-148: a warning only
ClineFailed(parentAfter) ==
    /\ cfgParent' = parentAfter
    /\ cfgFile' = cfgFile
    /\ clineLog' = Logged([before |-> cfgFile, after |-> cfgFile, outcome |-> "failed"])

\* __main__.py 132-145, with the configuration loaded
ClineRegister(config, parentAfter) ==
    IF config.servers.type # "dict"
    THEN ClineFailed(parentAfter)
    ELSE IF NeedsWrite(config.servers.entries)
    THEN \E outcome \in {"written", "open_failed", "write_failed"} :
            /\ cfgParent' = parentAfter
            /\ cfgFile' = CASE outcome = "written" -> Dump(WithServer(config))
                            [] outcome = "open_failed" -> cfgFile
                            [] outcome = "write_failed" -> Truncated
            /\ clineLog' = Logged([before |-> cfgFile, after |-> cfgFile',
                                   outcome |-> outcome])
    ELSE /\ cfgParent' = parentAfter
         /\ cfgFile' = cfgFile
         /\ clineLog' = Logged([before |-> cfgFile, after |-> cfgFile,
                                outcome |-> "already"])

\* configure_cline, __main__.py 90-148
ConfigureCline ==
    /\ IF cfgFile.kind = "text"
       THEN IF Load(cfgFile).type # "object"
            THEN ClineFailed(cfgParent)
            ELSE ClineRegister(WithServersKey(Load(cfgFile)), cfgParent)
       ELSE IF cfgParent = "blocked"
            THEN ClineFailed(cfgParent)
            ELSE ClineRegister(EmptyConfig, "dir")
    /\ UNCHANGED <<storageVars, ctorVars, lagging>>

\* the user, or another program, rewrites or removes the settings file
ForeignEdit(file) ==
    /\ cfgParent = "dir"
    /\ file # cfgFile
    /\ cfgFile' = file
    /\ clineLog' = <<>>
    /\ UNCHANGED <<cfgParent, storageVars, ctorVars, lagging>>

InitCline ==
    /\ docsKind = "missing"
    /\ link = NoLink
    /\ templates = Templates
    /\ rootAliased = FALSE
    /\ files = [f \in FileNames |-> Absent]
    /\ proc = [p \in AllProcs |-> IdleProc]
    /\ writes = [d \in Dests |-> 0]
    /\ settled = FALSE
    /\ cacheRoot = TRUE
    /\ manager = [p \in AllProcs |-> Layout(ProjectRoot, NoSub, TRUE)]
    /\ lagging = FALSE
    /\ cfgParent \in {"missing", "dir", "blocked"}
    /\ cfgFile \in {AbsentFile} \cup ConfigFiles
    /\ cfgFile # AbsentFile => cfgParent = "dir"
    /\ clineLog = <<>>

NextCline ==
    \/ ConfigureCline
    \/ \E file \in {AbsentFile} \cup ConfigFiles : ForeignEdit(file)

SpecCline == InitCline /\ [][NextCline]_vars

(***************************************************************************)
(* The properties.                                                         *)
(***************************************************************************)
AllTrue(answers) == \A k \in 1..Len(answers) : answers[k]
AllFalse(answers) == \A k \in 1..Len(answers) : ~answers[k]
IsPrefix(a, b) == Len(a) <= Len(b) /\ a = SubSeq(b, 1, Len(a))

LinkCorrect == Exists(link) /\ IsSymlink(link) /\ Resolve(link) = ProjectDocsDir

Finished(p) == proc[p].pc = "done"
SetupFinished(p) == proc[p].pc = "done" /\ proc[p].mode = "setup"

\* the filesystem answers every check truthfully, the paths hold no symlinked
\* directory, the documents path is not taken by a file, no read or write fails
NoFault(p) ==
    /\ AllTrue(proc[p].dirAns)
    /\ AllTrue(proc[p].linkAns)
    /\ ~rootAliased
    /\ proc[p].start.docsKind # "file"
    /\ proc[p].err # "template_io"

\* C1: whenever _create_or_update_symlink has returned without raising,
\* whatever was at the link path before, the link path exists, is a symbolic
\* link and resolves to the documents directory.
C1_ReconcileReturnsOnlyWhenCorrect ==
    \A p \in AllProcs : proc[p].recOk => LinkCorrect

C1_Witness ==
    \E p \in AllProcs :
        /\ Finished(p) /\ proc[p].mode = "reconcile" /\ proc[p].recOk
        /\ proc[p].start.link = SymlinkTo(OtherDir, FALSE)
        /\ proc[p].start.docsKind = "missing"

\* C2: a plain directory at .neurolora is replaced: the call completes
\* without error and .neurolora is then a symlink resolving to the documents
\* directory.
C2_PlainDirectoryReplaced ==
    \A p \in AllProcs :
        (Finished(p) /\ NoFault(p) /\ proc[p].start.link.kind = "dir")
            => (proc[p].err = "none" /\ LinkCorrect /\ link.kind # "dir")

\* C3: a symlink to any other path X, existing or not, is replaced: the call
\* completes without error and .neurolora then resolves to the documents
\* directory.
C3_WrongTargetReplaced ==
    \A p \in AllProcs :
        (/\ Finished(p) /\ NoFault(p)
         /\ proc[p].start.link.kind = "symlink"
         /\ proc[p].start.link.target # ProjectDocsDir)
            => (proc[p].err = "none" /\ LinkCorrect)

\* C4: a destination that exists when setup() is called has the same content
\* when the call is over; the seeder writes each destination at most once;
\* and no destination goes back to absent.
C4_NoOverwriteSeeding ==
    /\ [](\A p \in AllProcs : SetupFinished(p) =>
            \A d \in Dests : proc[p].start.files[d] # Absent
                                => files[d] = proc[p].start.files[d])
    /\ [](\A d \in Dests : writes[d] <= 1)
    /\ [][\A d \in Dests : files[d] # Absent => files'[d] # Absent]_vars

C4_Witness ==
    \E p \in AllProcs :
        /\ SetupFinished(p) /\ proc[p].err = "none"
        /\ proc[p].start.files["TODO.md"] = "custom"
        /\ files["TODO.md"] = "custom"
        /\ writes["TODO.md"] = 1
        /\ "todo.template.md" \in templates

\* C5: a setup() called right after a setup() that returned, nothing else
\* having written in between, leaves the layout and every file as the first
\* call left them.
C5_SetupIdempotent ==
    \A p \in AllProcs : (SetupFinished(p) /\ proc[p].rerun) => Fs = proc[p].start

C5_Witness ==
    \E p \in AllProcs :
        /\ SetupFinished(p) /\ proc[p].rerun /\ proc[p].err = "none"
        /\ files = [f \in FileNames |->
                      IF f = Marker THEN "initialized" ELSE TemplateContent(TemplateOf(f))]
        /\ link = SymlinkTo(RelPath(ProjectDocsDir, LinkParent), TRUE)

\* C6: when every existence check of the documents directory answers false,
\* _create_directories raises only after exactly 10 polling attempts.
C6_RaisesOnlyAfterTenPolls ==
    \A p \in AllProcs :
        (/\ SetupFinished(p)
         /\ proc[p].err \in {"dir_not_created", "dir_not_visible"}
         /\ AllFalse(proc[p].dirAns))
            => proc[p].i = MaxRetries

\* the answers seen fit a filesystem that answers false to the first k
\* checks, 1 <= k < 10, and true from then on
LagShape(answers) ==
    \E k \in 1..(MaxRetries - 1) :
        /\ Len(answers) >= 1
        /\ \A j \in 1..Len(answers) : answers[j] = (j > k)

\* C7: when the checks of the fresh directory, or of the fresh link, answer
\* false k times, 1 <= k < 10, and true from then on, setup() does not raise
\* and the directory and the link are in place.
C7_LagTolerated ==
    \A p \in AllProcs :
        (/\ SetupFinished(p)
         /\ ~rootAliased
         /\ proc[p].start.docsKind = "missing"
         /\ proc[p].start.link.kind = "missing"
         /\ proc[p].err # "template_io"
         /\ LagShape(proc[p].dirAns) \/ AllTrue(proc[p].dirAns)
         /\ LagShape(proc[p].linkAns) \/ AllTrue(proc[p].linkAns))
            => (proc[p].err = "none" /\ docsKind = "dir" /\ LinkCorrect)

DirectoryPcs == {"d_mkdir", "d_marker", "d_check", "d_poll"}
SymlinkPcs ==
    {"rec_mkdir", "rec_exists", "rec_issym", "rec_resolve", "rec_unlink", "rec_symlink",
     "v_exists", "v_issym", "v_resolve", "l_poll"}

SeedsAsAtStart(p) == \A d \in Dests : files[d] = proc[p].start.files[d]

\* C8: setup() runs directories, symlinks, seeding in that order; an error
\* ends the call at once with that error; after an error of the directory
\* step the link and the seeded files are as they were when the call began,
\* and after an error of the symlink step the seeded files are.
C8_FailFastInOrder ==
    \A p \in AllProcs :
        proc[p].mode = "setup" =>
            /\ IsPrefix(proc[p].phases,
                        <<"directories", "symlinks", "ignore_file", "task_files">>)
            /\ proc[p].pc \in DirectoryPcs => Len(proc[p].phases) = 1
            /\ proc[p].pc \in SymlinkPcs => Len(proc[p].phases) = 2
            /\ proc[p].pc = "s_ignore" => Len(proc[p].phases) = 3
            /\ proc[p].pc \in {"s_todo", "s_done"} => Len(proc[p].phases) = 4
            /\ Len(proc[p].phases) >= 3 => (proc[p].recOk /\ docsKind = "dir")
            /\ proc[p].err # "none" => proc[p].pc = "done"
            /\ (proc[p].err # "none" /\ Len(proc[p].phases) = 1)
                   => (link = proc[p].start.link /\ SeedsAsAtStart(p))
            /\ (proc[p].err # "none" /\ Len(proc[p].phases) = 2) => SeedsAsAtStart(p)

C8_Witness ==
    \E p \in AllProcs :
        /\ SetupFinished(p)
        /\ proc[p].err = "dir_not_visible"
        /\ link = NoLink
        /\ files[".neuroloraignore"] = Absent
        /\ templates = Templates

\* C9: a missing template does not abort setup(): once the directory and
\* the link are in place and no read or write fails, setup() returns without
\* error whatever templates are missing, creates no destination whose
\* template is missing, and seeds every destination whose template is there.
C9_MissingTemplateTolerated ==
    \A p \in AllProcs :
        (SetupFinished(p) /\ Len(proc[p].phases) >= 3 /\ proc[p].err # "template_io")
            => /\ proc[p].err = "none"
               /\ \A d \in Dests :
                    /\ (TemplateOf(d) \notin templates /\ proc[p].start.files[d] = Absent)
                           => files[d] = Absent
                    /\ TemplateOf(d) \in templates => files[d] # Absent

C9_Witness ==
    \E p \in AllProcs :
        /\ SetupFinished(p) /\ proc[p].err = "none"
        /\ templates = {"todo.template.md"}
        /\ files["TODO.md"] = "todo-text"
        /\ files["DONE.md"] = Absent
        /\ files[".neuroloraignore"] = Absent

\* C10: on a fresh filesystem with every template bundled, after setup()
\* the documents directory exists and holds .initialized with the text
\* "initialized", TODO.md and DONE.md; .neurolora is a symlink resolving to
\* it; .neuroloraignore holds the text of ignore.template.
C10_FreshEndToEnd ==
    \A p \in AllProcs :
        (/\ SetupFinished(p) /\ NoFault(p)
         /\ proc[p].start = FreshFs
         /\ templates = Templates)
            => /\ proc[p].err = "none"
               /\ docsKind = "dir"
               /\ PathExists(Home \o <<".mcp-docs", "app">>)
               /\ files[Marker] = "initialized"
               /\ files["TODO.md"] = "todo-text"
               /\ files["DONE.md"] = "done-text"
               /\ files[".neuroloraignore"] = "ignore-text"
               /\ LinkCorrect

C10_Witness ==
    \E p \in AllProcs :
        /\ SetupFinished(p) /\ NoFault(p)
        /\ proc[p].start = FreshFs
        /\ templates = Templates
        /\ proc[p].err = "none"
        /\ files[".neuroloraignore"] = "ignore-text"

\* C11: in a sequential run, once the link path is a symlink resolving to the
\* documents directory, no step removes or recreates the link, and no step
\* deletes the documents directory or a file in it.
C11_CorrectLinkLeftAlone ==
    [][LinkCorrect =>
         /\ link' = link
         /\ docsKind' = docsKind
         /\ \A f \in InDocs : files[f] # Absent => files'[f] # Absent]_vars

C11_Witness ==
    \E p \in AllProcs :
        /\ proc[p].pc = "v_exists"
        /\ proc[p].start.link = link
        /\ link.rel
        /\ LinkCorrect

Constructing == \E p \in AllProcs : ~manager[p].live /\ manager'[p].live

\* C12 as stated: constructing a StorageManager creates, changes or deletes
\* nothing on the filesystem.
C12_ConstructionLeavesFilesystem ==
    [][Constructing => (cacheRoot' = cacheRoot /\ UNCHANGED <<docsKind, link, files>>)]_vars

\* C12 as amended: constructing a StorageManager creates the cache root
\* ~/.mcp-docs when it is absent, and creates, changes or deletes nothing
\* else; the cache root is never removed.
C12_ConstructionMakesOnlyCacheRoot ==
    /\ [][Constructing => (cacheRoot' /\ UNCHANGED <<docsKind, link, files>>)]_vars
    /\ [][cacheRoot => cacheRoot']_vars
    /\ [](\A p \in AllProcs : manager[p].live => cacheRoot)

C12_Witness ==
    \E p \in AllProcs :
        /\ manager[p].live
        /\ ~manager[p].cacheRootBefore
        /\ cacheRoot
        /\ docsKind = "missing"
        /\ link = NoLink

\* C13 as stated: the name is b without a sub-identity and b-s with one; the
\* same inputs give the same name; for one root the name without a
\* sub-identity differs from the name with one, and so do the directories.
C13_NamespaceBySubIdentity ==
    \A p, q \in AllProcs :
        (manager[p].live /\ manager[q].live) =>
            /\ ~manager[p].sub.given => manager[p].name = Last(manager[p].root)
            /\ manager[p].sub.given =>
                   manager[p].name = Last(manager[p].root) \o <<"-">> \o manager[p].sub.text
            /\ (manager[p].root = manager[q].root /\ manager[p].sub = manager[q].sub)
                   => manager[p].name = manager[q].name
            /\ (/\ manager[p].root = manager[q].root
                /\ ~manager[p].sub.given /\ manager[q].sub.given)
                   => (/\ manager[p].name # manager[q].name
                       /\ manager[p].docsDir # manager[q].docsDir)

\* C13 as amended: the same for a sub-identity that is not the empty string;
\* an empty sub-identity gives the name b, like an absent one.
C13_NamespaceByNonEmptySubIdentity ==
    \A p, q \in AllProcs :
        (manager[p].live /\ manager[q].live) =>
            /\ (~manager[p].sub.given \/ manager[p].sub.text = <<>>)
                   => manager[p].name = Last(manager[p].root)
            /\ (manager[p].sub.given /\ manager[p].sub.text # <<>>)
                   => manager[p].name = Last(manager[p].root) \o <<"-">> \o manager[p].sub.text
            /\ manager[p].docsDir = <<"home", "u", ".mcp-docs", manager[p].name>>
            /\ (manager[p].root = manager[q].root /\ manager[p].sub = manager[q].sub)
                   => manager[p].name = manager[q].name
            /\ (/\ manager[p].root = manager[q].root
                /\ ~manager[p].sub.given
                /\ manager[q].sub.given /\ manager[q].sub.text # <<>>)
                   => (/\ manager[p].name # manager[q].name
                       /\ manager[p].docsDir # manager[q].docsDir)

C13_Witness ==
    /\ manager[1].live /\ manager[2].live
    /\ manager[1].root = manager[2].root
    /\ manager[1].sub = NoSub
    /\ manager[2].sub = Sub(<<"a">>)
    /\ manager[1].name = <<"a">>
    /\ manager[2].name = <<"a", "-", "a">>

\* C14: whenever seeding a file fails, setup() ends with that error, and at
\* that moment the documents directory exists and .neurolora is a symlink
\* resolving to it; the failing step changes neither.
C14_SeedFailureKeepsLayout ==
    /\ [](\A p \in AllProcs :
            proc[p].seedFault =>
                /\ proc[p].pc = "done"
                /\ proc[p].err = "template_io"
                /\ docsKind = "dir"
                /\ LinkCorrect)
    /\ [][(\E p \in AllProcs : ~proc[p].seedFault /\ proc'[p].seedFault)
             => (link' = link /\ docsKind' = docsKind)]_vars

C14_Witness ==
    \E p \in AllProcs :
        /\ proc[p].seedFault
        /\ SetupFinished(p)
        /\ proc[p].start.link = FileAtLink
        /\ files["TODO.md"] = "partial"
        /\ files[".neuroloraignore"] = "ignore-text"

\* how far a call is from its end at most, in steps
Rank(r) ==
    CASE r.pc = "done" -> 0
      [] r.pc = "s_done" -> 1
      [] r.pc = "s_todo" -> 2
      [] r.pc = "s_ignore" -> 3
      [] r.pc = "l_poll" -> 4 + (10 - r.i)
      [] r.pc = "v_resolve" -> 15
      [] r.pc = "v_issym" -> 16
      [] r.pc = "v_exists" -> 17
      [] r.pc = "rec_symlink" -> 18
      [] r.pc = "rec_unlink" -> 19
      [] r.pc = "rec_resolve" -> 20
      [] r.pc = "rec_issym" -> 21
      [] r.pc = "rec_exists" -> 22
      [] r.pc = "rec_mkdir" -> 23
      [] r.pc = "d_poll" -> 24 + (10 - r.i)
      [] r.pc = "d_check" -> 35
      [] r.pc = "d_marker" -> 36
      [] r.pc = "d_mkdir" -> 37
      [] OTHER -> 38

Running(p) == proc[p].pc \notin {"idle", "done"}

\* C17: setup() always ends, whatever the existence checks answer: a call
\* that has not ended can take a step, every step of it brings it nearer to
\* its end, and each of the two loops makes at most 10 checks and 10 sleeps.
C17_SetupTerminates ==
    /\ [](\A p \in AllProcs :
            /\ proc[p].i <= 10
            /\ Len(proc[p].dirAns) <= 1 + 10
            /\ Len(proc[p].linkAns) <= 1 + 10
            /\ Running(p) => (Rank(proc[p]) \in 1..37 /\ ENABLED Step(p)))
    /\ [][\A p \in AllProcs :
            (Running(p) /\ proc'[p] # proc[p]) => Rank(proc'[p]) < Rank(proc[p])]_vars

C17_Witness ==
    \E p \in AllProcs :
        /\ SetupFinished(p)
        /\ proc[p].err = "link_not_visible"
        /\ proc[p].i = 10
        /\ Len(proc[p].linkAns) = 11
        /\ Len(proc[p].dirAns) = 11

BothReconciled ==
    \A p \in AllProcs : Finished(p) /\ proc[p].mode = "reconcile"

\* C15: when two processes have run reconcile concurrently, every filesystem
\* call atomic, from any starting state of the link, at least one of them
\* completed without error and the link is a symlink resolving to the
\* documents directory.
C15_OneSucceedsAndLinkCorrect ==
    BothReconciled =>
        /\ \E p \in AllProcs : proc[p].err = "none"
        /\ LinkCorrect

\* the same, for the starting states in which the link is absent, a regular
\* file or a symlink to an existing directory
C15_FromRepairableStart ==
    /\ BothReconciled
    /\ \A p \in AllProcs :
           proc[p].start.link \notin {DirAtLink, SymlinkTo(GoneDir, FALSE)}
    => /\ \E p \in AllProcs : proc[p].err = "none"
       /\ LinkCorrect

\* C16: also when two setup() runs interleave, no step removes a link that is
\* correct at the moment of the step.
C16_CorrectLinkNeverUnlinked ==
    [][(\A p \in AllProcs : proc[p].mode = "setup") /\ LinkCorrect
         => link' # NoLink]_vars

HasEntries(file) ==
    /\ file.kind = "text"
    /\ file.data.type = "object"
    /\ file.data.servers.type = "dict"

EntriesOf(file) == IF HasEntries(file) THEN file.data.servers.entries ELSE NoEntries

ForeignEntries(file) ==
    [n \in DOMAIN EntriesOf(file) \ {ServerName} |-> EntriesOf(file)[n]]

OwnEntryAsExpected(file) ==
    /\ ServerName \in DOMAIN EntriesOf(file)
    /\ EntriesOf(file)[ServerName] = ServerConfig

OpenedForWriting(call) == call.outcome \in {"written", "write_failed"}
Succeeded(call) == call.outcome \in {"written", "already"}

\* C18: configure_cline keeps the entries of other servers (every write
\* running to its end), opens the file for writing only when the server's own
\* entry is absent or differs from the expected one, and a call directly
\* after a successful one writes nothing and leaves the file as it was.
C18_ClineIdempotentPreserving ==
    \A k \in 1..Len(clineLog) :
        LET call == clineLog[k] IN
        /\ call.before.kind = "text" /\ call.outcome # "write_failed"
             => /\ ForeignEntries(call.after) = ForeignEntries(call.before)
                /\ ~HasEntries(call.before) /\ call.outcome # "written"
                     => call.after = call.before
        /\ OpenedForWriting(call) => ~OwnEntryAsExpected(call.before)
        /\ k > 1 /\ Succeeded(clineLog[k - 1])
             => /\ call.before = clineLog[k - 1].after
                /\ call.outcome = "already"
                /\ call.after = call.before

C18_Witness ==
    /\ Len(clineLog) = 2
    /\ clineLog[1].outcome = "written"
    /\ ForeignName \in DOMAIN EntriesOf(clineLog[1].before)
    /\ ServerName \in DOMAIN EntriesOf(clineLog[1].before)
    /\ clineLog[1].before.fmt = "compact"
    /\ clineLog[2].outcome = "already"
    /\ cfgFile = clineLog[1].after
====
